---- MODULE Spec2Model ----
(***************************************************************************)
(* A model of the L-system rewriting engine (lsystem.py) and of the        *)
(* textual grammar parser (lparser.py).                                    *)
(*                                                                         *)
(* Tokens are records [k, cls, name]: k = "sym" for a member of an         *)
(* alphabet enum (cls numbers the enum class, name is the member name) and *)
(* k = "lit" for a Python str (name is its text).  Texts are sequences of  *)
(* one-character strings.  Weights are exact rationals [n, d].             *)
(***************************************************************************)
EXTENDS Integers, Sequences, FiniteSets, TLC

VARIABLES
    \* ---- rewriting engine (lsystem.py: LSystem) ----
    lsys,        \* the LSystem object: [axiom, rules, warn]
    epc,         \* position of the generator frame of expand()
    data,        \* local `data` of expand()
    new_data,    \* local `new_data` of expand()
    yields,      \* the values yielded so far, in order
    diag,        \* number of "no rule found" warnings printed by the last step
    result,      \* local `result` of realize(): [some, val]
    outcome,     \* what realize() returned or raised
    \* ---- one WeightedRule over a pool of WeightedReplacement objects ----
    wheap,       \* the WeightedReplacement objects, by id
    winput,      \* the argument list of WeightedRule(...) and the heap it saw
    wrule,       \* the constructed rule: [state, reps, warned]
    pick,        \* the last random_weighted_choice(): [kind, chance, idx, fell]
    \* ---- LParser.parse (lparser.py) ----
    source,      \* the text of the file, and the grammar it was written from
    pbuf,        \* what BufFile has still to deliver
    pletters,    \* local `letters`: [some, val]
    paxiom,      \* local `axiom`: [some, val]
    ppattern,    \* local `pattern`: [some, val]; some = FALSE is unbound
    replacements,\* local `replacements`, in insertion order: <<[pat, cands]>>
    genAlphabet, \* the module global GenAlphabet: [cls, members]
    ppc,         \* "top", "returned", "raised", "diverged"; "off" when unused
    perr,        \* the exception parse() raised
    returned,    \* the class parse() returned: [cls, members]
    \* ---- Filler.spread and RuleConverter.convert (lsystem.py) ----
    fpc,         \* "ready" before the call, "done" after it; "off" when unused
    frecipe,     \* Filler.recipe
    fsupplement, \* the argument of spread()
    fresult,     \* what spread() returned or raised: [kind, val, item]
    rc,          \* the RuleConverter: its start and end delimiters
    cpc,         \* "ready" before the call, "done" after it; "off" when unused
    ctemplates,  \* the templates given to convert()
    cresult,     \* what convert() returned or raised: [kind, rule]
    \* ---- several generators of one LSystem (lsystem.py) ----
    walks,       \* each generator's frame: [pc, data, new_data, yields]
    \* ---- a second WeightedRule over the same objects (lsystem.py) ----
    wsecond      \* the rule constructed after wrule: [state, reps, warned]

evars == <<lsys, epc, data, new_data, yields, diag, result, outcome>>
wvars == <<wheap, winput, wrule, pick, wsecond>>
pvars == <<source, pbuf, pletters, paxiom, ppattern, replacements, genAlphabet, ppc, perr, returned>>
tvars == <<fpc, frecipe, fsupplement, fresult, rc, cpc, ctemplates, cresult, walks>>
vars == <<evars, wvars, pvars, tvars>>

\* ------------------------------------------------------------------ bounds
MaxAxiomLen == 2
MaxCands == 2
MaxLen == 4
MaxYields == 4
MaxWeight == 2
MaxReps == 3
MaxCases == 2
MaxRecipe == 3
MaxSlots == 2
MaxTemplate == 3
DrawDen == 4

\* ------------------------------------------------------- exact rationals
RECURSIVE Gcd(_, _)
Gcd(a, b) == IF b = 0 THEN a ELSE Gcd(b, a % b)

Rat(n, d) == LET g == Gcd(IF n < 0 THEN -n ELSE n, d) IN [n |-> n \div g, d |-> d \div g]
RSub(a, b) == Rat(a.n * b.d - b.n * a.d, a.d * b.d)
RAdd(a, b) == Rat(a.n * b.d + b.n * a.d, a.d * b.d)
RDiv(a, b) == Rat(a.n * b.d, a.d * b.n)
RLe0(a) == a.n <= 0
RLess(a, b) == a.n * b.d < b.n * a.d
\* the weight slot of a candidate that is a plain list, not a WeightedReplacement
NoWeight == [n |-> 0, d |-> 0]
IsWeighted(c) == c.w.d # 0

RMul(a, b) == Rat(a.n * b.n, a.d * b.d)
RECURSIVE RSum(_)
RSum(ws) == IF ws = <<>> THEN Rat(0, 1) ELSE RAdd(Head(ws), RSum(Tail(ws)))

\* ------------------------------------------------------------------ tokens
Sym(cls, name) == [k |-> "sym", cls |-> cls, name |-> name]
Lit(text) == [k |-> "lit", cls |-> 0, name |-> text]
IsSym(t) == t.k = "sym"

\* the example alphabet of lsystem.py and two literals
A == Sym(0, <<"A">>)
B == Sym(0, <<"B">>)
LitX == Lit(<<"x">>)

\* AlphabetEnum.__str__ returns the member's value; the members of the example
\* alphabet carry their own name as value ('A', 'B', 'C').
StrOfSym(t) == t.name

\* --------------------------------------- WeightedReplacement objects, by id
\* A heap maps object ids to [toks, w, fl]: the replacement, the weight and
\* whether the weight is a Python float (fl) or an int.
WR(toks, w, fl) == [toks |-> toks, w |-> w, fl |-> fl]

\* near_equals(a, b, epsilon=1e-6) with b = 1
near_equals_1(a) ==
    LET diff == RSub(a, Rat(1, 1))
        absd == [n |-> IF diff.n < 0 THEN -diff.n ELSE diff.n, d |-> diff.d]
    IN RLess(absd, Rat(1, 1000000))

\* sorted(replacements, key=lambda x: x.weight, reverse=True): a stable sort,
\* equal weights stay in input order.  Insert x behind every element that is
\* not smaller than it.
RECURSIVE InsertDesc(_, _, _)
InsertDesc(heap, sorted, x) ==
    IF sorted = <<>> THEN <<x>>
    ELSE IF RLess(heap[Head(sorted)].w, heap[x].w)
         THEN <<x>> \o sorted
         ELSE <<Head(sorted)>> \o InsertDesc(heap, Tail(sorted), x)

RECURSIVE SortedDesc(_, _, _)
SortedDesc(heap, ids, acc) ==
    IF ids = <<>> THEN acc
    ELSE SortedDesc(heap, Tail(ids), InsertDesc(heap, acc, Head(ids)))

RECURSIVE HeapTotal(_, _)
HeapTotal(heap, ids) ==
    IF ids = <<>> THEN Rat(0, 1)
    ELSE RAdd(heap[Head(ids)].w, HeapTotal(heap, Tail(ids)))

\* a normalisation that divides by the number of entries instead of their sum
NormalizeLoopByCount(heap, ids, total) ==
    [id \in DOMAIN heap |->
        IF \E i \in 1..Len(ids) : ids[i] = id
        THEN WR(heap[id].toks, RDiv(heap[id].w, Rat(Len(ids), 1)), TRUE)
        ELSE heap[id]]

\* WeightedRule.normalize_weights: `replacement.weight /= total` for each list
\* entry in turn, on the objects themselves (an object listed twice is divided
\* twice).  total is not 0 here.
RECURSIVE NormalizeLoop(_, _, _)
NormalizeLoop(heap, ids, total) ==
    IF ids = <<>> THEN heap
    ELSE LET id == Head(ids)
             h2 == [heap EXCEPT ![id] = WR(heap[id].toks, RDiv(heap[id].w, total), TRUE)]
         IN NormalizeLoop(h2, Tail(ids), total)

normalize_weights(heap, ids) ==
    LET total == HeapTotal(heap, ids)
    IN IF ids = <<>> THEN [ok |-> TRUE, heap |-> heap]
       ELSE IF total.n = 0 THEN [ok |-> FALSE, heap |-> heap]   \* ZeroDivisionError
       ELSE [ok |-> TRUE, heap |-> NormalizeLoop(heap, ids, total)]

\* WeightedRule.__init__: [ok, heap, reps, warned]; ok = FALSE is the
\* ZeroDivisionError of normalize_weights.
WeightedRuleInit(heap, ids) ==
    LET sorted == SortedDesc(heap, ids, <<>>)
        total == HeapTotal(heap, sorted)
        all_int == \A i \in 1..Len(sorted) : ~heap[sorted[i]].fl
    IN IF near_equals_1(total)
       THEN [ok |-> TRUE, heap |-> heap, reps |-> sorted, warned |-> FALSE]
       ELSE LET nz == normalize_weights(heap, sorted)
            IN [ok |-> nz.ok, heap |-> nz.heap, reps |-> sorted, warned |-> ~all_int]

\* a walk that stops only on a remainder below zero
RECURSIVE ChoiceLoopStrict(_, _, _)
ChoiceLoopStrict(ws, i, chance) ==
    IF i > Len(ws) THEN [idx |-> Len(ws), fell |-> TRUE]
    ELSE LET c2 == RSub(chance, ws[i])
         IN IF c2.n < 0 THEN [idx |-> i, fell |-> FALSE]
            ELSE ChoiceLoopStrict(ws, i + 1, c2)

\* WeightedRule.random_weighted_choice for the draw `chance` (random.random()):
\* the index of the candidate returned, and whether the loop returned it
\* (fell = FALSE) or the fallback after the loop did (fell = TRUE).
RECURSIVE ChoiceLoop(_, _, _)
ChoiceLoop(ws, i, chance) ==
    IF i > Len(ws) THEN [idx |-> Len(ws), fell |-> TRUE]
    ELSE LET c2 == RSub(chance, ws[i])
         IN IF RLe0(c2) THEN [idx |-> i, fell |-> FALSE]
            ELSE ChoiceLoop(ws, i + 1, c2)

random_weighted_choice(ws, chance) == ChoiceLoop(ws, 1, chance)

\* the values random.random() can return, on a grid of DrawDen points of [0, 1)
Draws == {Rat(k, DrawDen) : k \in 0..(DrawDen - 1)}

\* ----------------------------------------------------------------- rules
\* A rule is [kind, pattern, reps]; reps is the list self.replacements, each
\* entry [toks, w]: a plain list (w = NoWeight) or a WeightedReplacement.
Cand(toks) == [toks |-> toks, w |-> NoWeight, fl |-> FALSE]
WCand(toks, w) == [toks |-> toks, w |-> w, fl |-> FALSE]
WCandF(toks, w, fl) == [toks |-> toks, w |-> w, fl |-> fl]
Rule(pattern, reps) == [kind |-> "Rule", pattern |-> pattern, reps |-> reps]
LeafRule(pattern) == [kind |-> "LeafRule", pattern |-> pattern, reps |-> <<>>]

\* the rule object over the constructed list
RuleOver(pattern, built) ==
    [ok |-> built.ok,
     rule |-> [kind |-> "WeightedRule", pattern |-> pattern,
               reps |-> [i \in 1..Len(built.reps) |-> built.heap[built.reps[i]]]]]

\* WeightedRule(pattern, [WeightedReplacement(toks, w), ...]) built from fresh
\* objects: [ok, rule].
WeightedRule(pattern, raw) ==
    RuleOver(pattern, WeightedRuleInit([i \in 1..Len(raw) |-> WR(raw[i].toks, raw[i].w, raw[i].fl)],
                                       [i \in 1..Len(raw) |-> i]))

Weights(rule) == [i \in 1..Len(rule.reps) |-> rule.reps[i].w]

\* rule.get_replacement(): the token lists it can return; {} when it raises
\* (IndexError of self.replacements[-1] on an empty WeightedRule).
GetReplacementWeighted(rule) ==
    IF rule.reps = <<>> THEN {}
    ELSE {rule.reps[random_weighted_choice(Weights(rule), u).idx].toks : u \in Draws}

GetReplacementPlain(rule) ==
    IF rule.reps # <<>> THEN {rule.reps[i].toks : i \in 1..Len(rule.reps)}
    ELSE {<<rule.pattern>>}

get_replacement(rule) ==
    CASE rule.kind = "Rule" -> GetReplacementPlain(rule)
      [] rule.kind = "LeafRule" -> {<<rule.pattern>>}
      [] rule.kind = "WeightedRule" -> GetReplacementWeighted(rule)

\* the inner `for rule in self.rules` of expand(): index of the first rule
\* whose pattern equals the token, 0 when the loop ends without a break
RECURSIVE FirstMatch(_, _, _)
FirstMatch(rules, tok, i) ==
    IF i > Len(rules) THEN 0
    ELSE IF tok = rules[i].pattern THEN i
    ELSE FirstMatch(rules, tok, i + 1)

\* what one token contributes to new_data
TokenResults(rules, tok) ==
    LET i == FirstMatch(rules, tok, 1)
    IN IF i = 0 THEN {<<tok>>} ELSE get_replacement(rules[i])

\* a build that puts each token's result in front of new_data instead of behind
RECURSIVE DerivationsPrepend(_, _)
DerivationsPrepend(rules, d) ==
    IF d = <<>> THEN {<<>>}
    ELSE {t \o h : h \in TokenResults(rules, Head(d)), t \in DerivationsPrepend(rules, Tail(d))}

\* lines 160-169: every new_data the for loop can build from data
RECURSIVE Derivations(_, _)
Derivations(rules, d) ==
    IF d = <<>> THEN {<<>>}
    ELSE {h \o t : h \in TokenResults(rules, Head(d)), t \in Derivations(rules, Tail(d))}

\* the step raises when some token reaches a get_replacement() that raises
StepRaises(rules, d) == \E i \in 1..Len(d) : TokenResults(rules, d[i]) = {}

\* number of "Warning no rule found" lines the step prints
RECURSIVE Unmatched(_, _)
Unmatched(rules, d) ==
    IF d = <<>> THEN 0
    ELSE (IF FirstMatch(rules, Head(d), 1) = 0 THEN 1 ELSE 0) + Unmatched(rules, Tail(d))

\* ''.join(result) of realize(): TypeError unless result is a list of str
RECURSIVE JoinStrs(_)
JoinStrs(toks) == IF toks = <<>> THEN <<>> ELSE Head(toks).name \o JoinStrs(Tail(toks))

Join(res) ==
    IF ~res.some THEN [ok |-> FALSE, text |-> <<>>]
    ELSE IF \E i \in 1..Len(res.val) : IsSym(res.val[i]) THEN [ok |-> FALSE, text |-> <<>>]
    ELSE [ok |-> TRUE, text |-> JoinStrs(res.val)]

\* ============================================================ lparser.py
\* Characters are one-character strings; "" is what BufFile.get() returns at
\* end of input.
EOF == ""
Letters == {"A", "B", "C", "x", "y"}
Digits == {"0", "1", "2", "3", "4", "5", "6", "7", "8", "9"}
IsAlnum(c) == c \in Letters \cup Digits
IsSpace(c) == c \in {" ", "\n"}
DigitVal(c) ==
    CASE c = "0" -> 0 [] c = "1" -> 1 [] c = "2" -> 2 [] c = "3" -> 3 [] c = "4" -> 4
      [] c = "5" -> 5 [] c = "6" -> 6 [] c = "7" -> 7 [] c = "8" -> 8 [] c = "9" -> 9

\* literal_terminal = re.compile(r'[\w_|:\n]'): the characters it matches
LiteralTerminals == Letters \cup Digits \cup {"_", "|", ":", "\n"}

\* BufFile.get(): [c, buf]
Get(buf) == IF buf = <<>> THEN [c |-> EOF, buf |-> <<>>]
            ELSE [c |-> Head(buf), buf |-> Tail(buf)]

\* BufFile.discard_if(c)
DiscardIf(buf, c) == IF buf # <<>> /\ Head(buf) = c THEN Tail(buf) ELSE buf

\* index of the first character of buf that is in stops, 0 when none
FirstIndex(buf, stops) ==
    IF \E i \in 1..Len(buf) : buf[i] \in stops
    THEN CHOOSE i \in 1..Len(buf) : buf[i] \in stops /\ \A j \in 1..(i - 1) : buf[j] \notin stops
    ELSE 0

\* the loop shared by the three _consume_* methods: read up to the character
\* at index i and push that one back.  With no such character (i = 0) get()
\* returns '' for ever at end of input, '' stops none of the loops, and the
\* loop never ends (ok = FALSE).
ConsumeLoop(buf, i) ==
    IF i = 0 THEN [ok |-> FALSE, text |-> buf, buf |-> <<>>]
    ELSE [ok |-> TRUE, text |-> SubSeq(buf, 1, i - 1), buf |-> SubSeq(buf, i, Len(buf))]

NotNewline(c) == c # "\n"
\* `if x != '\n': res.append(x)`
DropNewlines(r) == [ok |-> r.ok, text |-> SelectSeq(r.text, NotNewline), buf |-> r.buf]

\* LParser._consume_until(f, *c): [ok, text, buf]
ConsumeUntil(buf, stops) == DropNewlines(ConsumeLoop(buf, FirstIndex(buf, stops)))

\* LParser._consume_until_r(f, literal_terminal)
ConsumeUntilR(buf) == DropNewlines(ConsumeLoop(buf, FirstIndex(buf, LiteralTerminals)))

\* LParser._consume_to_line_end(f)
ConsumeToLineEnd(buf) == ConsumeLoop(buf, FirstIndex(buf, {"\n"}))

\* str.strip() and the two halves of it
RECURSIVE LStrip(_)
LStrip(t) == IF t # <<>> /\ IsSpace(Head(t)) THEN LStrip(Tail(t)) ELSE t
RECURSIVE RStrip(_)
RStrip(t) == IF t # <<>> /\ IsSpace(t[Len(t)]) THEN RStrip(SubSeq(t, 1, Len(t) - 1)) ELSE t
Strip(t) == LStrip(RStrip(t))

\* comma_sep.split(text) with comma_sep = re.compile(r'\s*?,\s*'): the pieces
\* between commas, without the white space that touches a comma
RECURSIVE CommaSplit(_, _)
CommaSplit(t, cur) ==
    IF t = <<>> THEN <<cur>>
    ELSE IF Head(t) = "," THEN <<RStrip(cur)>> \o CommaSplit(LStrip(Tail(t)), <<>>)
    ELSE CommaSplit(Tail(t), Append(cur, Head(t)))

\* a name the generated class body `\t<name> = auto()` compiles with
IsIdentifier(n) == n # <<>> /\ n[1] \in Letters \cup {"_"}
                   /\ \A i \in 1..Len(n) : IsAlnum(n[i]) \/ n[i] = "_"
SeqHas(q, x) == \E i \in 1..Len(q) : q[i] = x

\* GenAlphabet[name] on the class the global names now; ok = FALSE is KeyError
Member(ga, name) == [ok |-> SeqHas(ga.members, name), tok |-> Sym(ga.cls, name)]

\* the exec() of consume_alphabet: a name that is no identifier is a
\* SyntaxError, a name used twice a TypeError of the enum; otherwise the
\* global GenAlphabet names a new class with these members
AlphabetClass(r, letters, ga) ==
    IF ~r.ok THEN [st |-> "diverged", buf |-> r.buf, letters |-> <<>>, ga |-> ga]
    ELSE IF \E i \in 1..Len(letters) : ~IsIdentifier(letters[i])
         THEN [st |-> "SyntaxError", buf |-> r.buf, letters |-> letters, ga |-> ga]
    ELSE IF \E i, j \in 1..Len(letters) : i # j /\ letters[i] = letters[j]
         THEN [st |-> "TypeError", buf |-> r.buf, letters |-> letters, ga |-> ga]
    ELSE [st |-> "ok", buf |-> r.buf, letters |-> letters,
          ga |-> [cls |-> ga.cls + 1, members |-> letters]]

AlphabetRead(r, ga) == AlphabetClass(r, CommaSplit(r.text, <<>>), ga)

\* LParser.consume_alphabet: [st, buf, letters, ga]
consume_alphabet(buf, ga) == AlphabetRead(ConsumeUntil(buf, {"#", "$", "@", "~"}), ga)

AxiomRead(r) ==
    IF ~r.ok THEN [st |-> "diverged", buf |-> r.buf, axiom |-> <<>>]
    ELSE [st |-> "ok", buf |-> Get(r.buf).buf, axiom |-> CommaSplit(r.text, <<>>)]

\* LParser.consume_axiom: [st, buf, axiom]
consume_axiom(buf) == AxiomRead(ConsumeUntil(buf, {"@"}))

\* a header that is taken as it stands, without looking at the alphabet
PatternReadUnchecked(r, letters) ==
    [st |-> IF ~r.ok THEN "diverged" ELSE "ok", buf |-> r.buf, pattern |-> Strip(r.text)]

PatternRead(r, letters) ==
    [st |-> IF ~r.ok THEN "diverged"
            ELSE IF letters.some /\ ~SeqHas(letters.val, Strip(r.text)) THEN "ValueError"
            ELSE "ok",
     buf |-> r.buf, pattern |-> Strip(r.text)]

\* LParser.consume_pattern: [st, buf, pattern]
consume_pattern(buf, letters) == PatternRead(ConsumeUntil(buf, {"="}), letters)

\* value of a digit run read left to right
RECURSIVE DigitsValue(_, _)
DigitsValue(ds, acc) ==
    IF ds = <<>> THEN acc ELSE DigitsValue(Tail(ds), 10 * acc + DigitVal(Head(ds)))
RECURSIVE Pow10(_)
Pow10(k) == IF k = 0 THEN 1 ELSE 10 * Pow10(k - 1)
DotCount(w) == Cardinality({i \in 1..Len(w) : w[i] = "."})
DotAt(w) == CHOOSE i \in 1..Len(w) : w[i] = "."
NotDot(c) == c # "."
WithoutDots(w) == SelectSeq(w, NotDot)

\* int(w) and float(w) raise ValueError on '', on '.' and on two dots
WeightParses(w) == IF DotCount(w) = 0 THEN w # <<>> ELSE DotCount(w) = 1 /\ Len(w) > 1
WeightValue(w) ==
    IF DotCount(w) = 0 THEN Rat(DigitsValue(w, 0), 1)
    ELSE Rat(DigitsValue(WithoutDots(w), 0), Pow10(Len(w) - DotAt(w)))

\* the loop of consume_weight: the run of digits and dots, and the character
\* read after it
RECURSIVE WeightRun(_, _)
WeightRun(buf, w) ==
    IF buf # <<>> /\ Head(buf) \in Digits \cup {"."}
    THEN WeightRun(Tail(buf), Append(w, Head(buf)))
    ELSE [c |-> Get(buf).c, buf |-> Get(buf).buf, w |-> w]

WeightRead(r) ==
    [st |-> IF WeightParses(r.w) THEN "ok" ELSE "ValueError", c |-> r.c, buf |-> r.buf,
     w |-> IF WeightParses(r.w) THEN WeightValue(r.w) ELSE NoWeight,
     fl |-> DotCount(r.w) > 0]

\* LParser.consume_weight: [st, c, buf, w, fl]
consume_weight(buf) == WeightRead(WeightRun(buf, <<>>))

LetterRead(r, ga) ==
    [st |-> IF ~r.ok THEN "diverged"
            ELSE IF ~Member(ga, r.text).ok THEN "KeyError" ELSE "ok",
     buf |-> r.buf, tok |-> Member(ga, r.text).tok]

\* LParser.consume_letter: [st, buf, tok]
consume_letter(buf, ga) == LetterRead(ConsumeUntil(buf, {" ", "\n", ":", "|"}), ga)

LiteralSkipped(r, r2) ==
    [st |-> IF r.ok /\ r2.ok THEN "ok" ELSE "diverged", buf |-> r2.buf, tok |-> Lit(r.text)]
LiteralRead(r) == LiteralSkipped(r, ConsumeUntilR(r.buf))

\* LParser.consume_literal: [st, buf, tok]
consume_literal(buf) == LiteralRead(ConsumeUntil(buf, {"\""}))

\* repl_parts.append(repl) after consume_literal or consume_letter returned
PartRead(c, r, parts) ==
    [st |-> r.st, c |-> c, buf |-> r.buf,
     parts |-> IF r.st = "ok" THEN Append(parts, r.tok) ELSE parts]

\* LParser.consume_replacement_case: [st, c, buf, parts]
consume_replacement_case(buf, ga, parts) ==
    IF Get(buf).c = "\"" THEN PartRead(Get(buf).c, consume_literal(Get(buf).buf), parts)
    ELSE IF IsAlnum(Get(buf).c) \/ Get(buf).c = "_"
         THEN PartRead(Get(buf).c, consume_letter(buf, ga), parts)
    ELSE [st |-> "ok", c |-> Get(buf).c, buf |-> Get(buf).buf, parts |-> parts]

\* lines 114-118: one case, read until | ~ : or end of input
RECURSIVE CaseLoop(_, _, _)
CaseNext(r, ga) ==
    IF r.st # "ok" \/ r.c \in {"|", "~", ":", EOF} THEN r
    ELSE CaseLoop(r.buf, ga, r.parts)
CaseLoop(buf, ga, parts) == CaseNext(consume_replacement_case(buf, ga, parts), ga)

\* lines 112-131: the replacement block after '=': [st, buf, cands], cands the
\* candidates appended to replacements[pattern], in order.  bound = FALSE is a
\* block before any pattern header: `pattern` is an unbound local.
RECURSIVE BlockLoop(_, _, _, _)

\* lines 123-125 and 130-131: the rest of the case is cleared up to | or ~,
\* a | is discarded, and c is the character consume_weight read
ClearCase(c, u, ga, cands) ==
    IF ~u.ok THEN [st |-> "diverged", buf |-> u.buf, cands |-> cands]
    ELSE IF c \in {"~", EOF} THEN [st |-> "ok", buf |-> DiscardIf(u.buf, "|"), cands |-> cands]
    ELSE BlockLoop(DiscardIf(u.buf, "|"), ga, TRUE, cands)

\* lines 120-125
WeightedCase(r, w, ga, bound, cands) ==
    IF w.st # "ok" THEN [st |-> w.st, buf |-> w.buf, cands |-> cands]
    ELSE IF ~bound THEN [st |-> "UnboundLocalError", buf |-> w.buf, cands |-> cands]
    ELSE ClearCase(w.c, ConsumeUntil(w.buf, {"|", "~"}), ga,
                   Append(cands, WCandF(r.parts, w.w, w.fl)))

\* lines 120-131 after the case r was read
BlockCase(r, ga, bound, cands) ==
    IF r.st # "ok" THEN [st |-> r.st, buf |-> r.buf, cands |-> cands]
    ELSE IF r.c = ":" THEN WeightedCase(r, consume_weight(r.buf), ga, bound, cands)
    ELSE IF ~bound THEN [st |-> "UnboundLocalError", buf |-> r.buf, cands |-> cands]
    ELSE IF r.c \in {"~", EOF}
         THEN [st |-> "ok", buf |-> r.buf, cands |-> Append(cands, Cand(r.parts))]
    ELSE BlockLoop(r.buf, ga, bound, Append(cands, Cand(r.parts)))

BlockLoop(buf, ga, bound, cands) == BlockCase(CaseLoop(buf, ga, <<>>), ga, bound, cands)

\* replacements[pattern].append(...) on the insertion-ordered defaultdict
RECURSIVE AppendTo(_, _, _)
AppendTo(repl, pat, cands) ==
    IF repl = <<>> THEN <<[pat |-> pat, cands |-> cands]>>
    ELSE IF Head(repl).pat = pat
         THEN <<[pat |-> pat, cands |-> Head(repl).cands \o cands]>> \o Tail(repl)
         ELSE <<Head(repl)>> \o AppendTo(Tail(repl), pat, cands)

\* rules.append(WeightedRule(pattern, repls)): ZeroDivisionError when the
\* constructor raises
WeightedRuleOf(wr) ==
    IF wr.ok THEN [st |-> "ok", rule |-> wr.rule]
    ELSE [st |-> "ZeroDivisionError", rule |-> wr.rule]

\* a finalization that looks at the last candidate of a pattern, not the first
RuleOfLast(ga, entry) ==
    IF ~Member(ga, entry.pat).ok
    THEN [st |-> "KeyError", rule |-> LeafRule(Member(ga, entry.pat).tok)]
    ELSE IF ~IsWeighted(entry.cands[Len(entry.cands)])
    THEN [st |-> "ok", rule |-> Rule(Member(ga, entry.pat).tok, entry.cands)]
    ELSE IF \E i \in 1..Len(entry.cands) : ~IsWeighted(entry.cands[i])
    THEN [st |-> "AttributeError", rule |-> LeafRule(Member(ga, entry.pat).tok)]
    ELSE WeightedRuleOf(WeightedRule(Member(ga, entry.pat).tok, entry.cands))

\* lines 149-154 for one pattern: [st, rule].  sorted() over a list that holds
\* a plain list raises AttributeError on its .weight
RuleOf(ga, entry) ==
    IF ~Member(ga, entry.pat).ok
    THEN [st |-> "KeyError", rule |-> LeafRule(Member(ga, entry.pat).tok)]
    ELSE IF ~IsWeighted(entry.cands[1])
    THEN [st |-> "ok", rule |-> Rule(Member(ga, entry.pat).tok, entry.cands)]
    ELSE IF \E i \in 1..Len(entry.cands) : ~IsWeighted(entry.cands[i])
    THEN [st |-> "AttributeError", rule |-> LeafRule(Member(ga, entry.pat).tok)]
    ELSE WeightedRuleOf(WeightedRule(Member(ga, entry.pat).tok, entry.cands))

\* the first exception met, "ok" when none
FirstBad(sts) == IF \E i \in 1..Len(sts) : sts[i] # "ok"
                 THEN sts[CHOOSE i \in 1..Len(sts) :
                            sts[i] # "ok" /\ \A j \in 1..(i - 1) : sts[j] = "ok"]
                 ELSE "ok"

\* the axiom lookups first, then the patterns in order
Transformed(ax, rs) ==
    [st |-> FirstBad([i \in 1..Len(ax) |-> IF ax[i].ok THEN "ok" ELSE "KeyError"]
                     \o [i \in 1..Len(rs) |-> rs[i].st]),
     axiom |-> [i \in 1..Len(ax) |-> ax[i].tok],
     rules |-> [i \in 1..Len(rs) |-> rs[i].rule]]

\* LParser.transform_parse_result: [st, axiom, rules]
transform_parse_result(axiom, ga, repl) ==
    Transformed([i \in 1..Len(axiom) |-> Member(ga, axiom[i])],
                [i \in 1..Len(repl) |-> RuleOf(ga, repl[i])])

\* ------------------------------------------------- the systems explored
SeqsUpTo(S, n) == UNION {[1..k -> S] : k \in 0..n}

Axioms == SeqsUpTo({A, B}, MaxAxiomLen)
CandPool == {<<>>, <<B>>, <<LitX>>, <<A, LitX>>}
WCandPool == {<<B>>, <<A, LitX>>}
PlainLists == SeqsUpTo({Cand(c) : c \in CandPool}, MaxCands)
RawWeightedLists ==
    SeqsUpTo({WCand(c, Rat(w, 1)) : c \in WCandPool, w \in 1..MaxWeight}, MaxCands)

RulesFor(p) ==
    {LeafRule(p)} \cup {Rule(p, l) : l \in PlainLists}
    \cup {WeightedRule(p, l).rule : l \in {r \in RawWeightedLists : WeightedRule(p, r).ok}}
RulesForB == {LeafRule(B), Rule(B, <<Cand(<<LitX>>)>>)}

RuleLists ==
    {<<>>} \cup {<<a>> : a \in RulesFor(A)}
    \cup {<<a, b>> : a \in RulesFor(A), b \in RulesForB}
    \cup {<<LeafRule(A), a>> : a \in RulesFor(A)}

Systems == [axiom : Axioms, rules : RuleLists, warn : BOOLEAN]

NoResult == [some |-> FALSE, val |-> <<>>]
NoInput == [ids |-> <<>>, heap |-> <<>>]
NoRule == [state |-> "none", reps |-> <<>>, warned |-> FALSE]
NoPick == [kind |-> "none", chance |-> Rat(0, 1), idx |-> 0, fell |-> FALSE]
None == [some |-> FALSE, val |-> <<>>]
Some(v) == [some |-> TRUE, val |-> v]
\* the class GenAlphabet as lparser.py defines it at import (lines 13-14)
ImportedGenAlphabet == [cls |-> 1, members |-> <<<<"A">>>>]
\* the class an earlier parse() of a file that declares A,B leaves in the
\* module global
LeftGenAlphabet == [cls |-> 1, members |-> <<<<"A">>, <<"B">>>>]
NoSource == [kind |-> "none", text |-> <<>>, hdr |-> "none", cases |-> <<>>,
             gap |-> <<>>, sentinel |-> FALSE]
ParserOff ==
    /\ source = NoSource
    /\ pbuf = <<>>
    /\ pletters = None
    /\ paxiom = None
    /\ ppattern = None
    /\ replacements = <<>>
    /\ genAlphabet = ImportedGenAlphabet
    /\ ppc = "off"
    /\ perr = "none"
    /\ returned = ImportedGenAlphabet
NoOutcome == [kind |-> "none", text |-> <<>>]
NoSpread == [kind |-> "none", val |-> <<>>, item |-> Lit(<<>>)]
NoConvert == [kind |-> "none", rule |-> LeafRule(A)]
FillerOff ==
    /\ fpc = "off"
    /\ frecipe = <<>>
    /\ fsupplement = <<>>
    /\ fresult = NoSpread
NoConverter == [start |-> <<>>, end |-> <<>>]
ConverterOff ==
    /\ rc = NoConverter
    /\ cpc = "off"
    /\ ctemplates = <<>>
    /\ cresult = NoConvert
WalksOff == walks = <<>>
ToolsOff == FillerOff /\ ConverterOff /\ WalksOff

\* ------------------------------------------------------ engine actions
InitEngine ==
    /\ lsys \in Systems
    /\ epc = "created"
    /\ data = <<>>
    /\ new_data = <<>>
    /\ yields = <<>>
    /\ diag = 0
    /\ result = NoResult
    /\ outcome = NoOutcome
    /\ wheap = <<>>
    /\ winput = NoInput
    /\ wrule = NoRule
    /\ pick = NoPick
    /\ wsecond = NoRule
    /\ ParserOff
    /\ ToolsOff

\* line 158: the first next() enters the generator and copies the axiom
Begin ==
    /\ epc = "created"
    /\ data' = lsys.axiom
    /\ epc' = "loop"
    /\ UNCHANGED <<lsys, new_data, yields, diag, result, outcome>>
    /\ UNCHANGED <<wvars, pvars, tvars>>

\* lines 160-169: build new_data from data
Derive ==
    /\ epc = "loop"
    /\ Len(yields) < MaxYields
    /\ ~StepRaises(lsys.rules, data)
    /\ \E nd \in Derivations(lsys.rules, data) :
          /\ Len(nd) <= MaxLen
          /\ new_data' = nd
    /\ diag' = IF lsys.warn THEN Unmatched(lsys.rules, data) ELSE 0
    /\ epc' = "built"
    /\ UNCHANGED <<lsys, data, yields, result, outcome>>
    /\ UNCHANGED <<wvars, pvars, tvars>>

\* an exception of get_replacement() leaves expand() and realize()
DeriveRaises ==
    /\ epc = "loop"
    /\ StepRaises(lsys.rules, data)
    /\ epc' = "raised"
    /\ outcome' = [kind |-> "IndexError", text |-> <<>>]
    /\ UNCHANGED <<lsys, data, new_data, yields, diag, result>>
    /\ UNCHANGED <<wvars, pvars, tvars>>

\* lines 170-171 and 178-180: the fixpoint ends the generator, and realize()
\* joins the last value it was given
Stop ==
    /\ epc = "built"
    /\ data = new_data
    /\ epc' = "done"
    /\ outcome' = LET j == Join(result)
                  IN IF j.ok THEN [kind |-> "str", text |-> j.text]
                     ELSE [kind |-> "TypeError", text |-> <<>>]
    /\ UNCHANGED <<lsys, data, new_data, yields, diag, result>>
    /\ UNCHANGED <<wvars, pvars, tvars>>

\* a generator that yields the candidate without comparing it first
YieldUnchecked ==
    /\ epc = "built"
    /\ data' = new_data
    /\ yields' = Append(yields, new_data)
    /\ result' = [some |-> TRUE, val |-> new_data]
    /\ epc' = "loop"
    /\ UNCHANGED <<lsys, new_data, diag, outcome>>
    /\ UNCHANGED <<wvars, pvars, tvars>>

\* lines 172-173 and 178-179: data = new_data; yield data; result = i
Yield ==
    /\ epc = "built"
    /\ data # new_data
    /\ data' = new_data
    /\ yields' = Append(yields, new_data)
    /\ result' = [some |-> TRUE, val |-> new_data]
    /\ epc' = "loop"
    /\ UNCHANGED <<lsys, new_data, diag, outcome>>
    /\ UNCHANGED <<wvars, pvars, tvars>>

NextEngine == Begin \/ Derive \/ DeriveRaises \/ Stop \/ Yield

SpecEngine == InitEngine /\ [][NextEngine]_vars

\* ------------------------------------------- WeightedRule on shared objects
ObjIds == {1, 2, 3}
IdLists == SeqsUpTo(ObjIds, MaxReps)
StoredWeights == [i \in 1..Len(wrule.reps) |-> wheap[wrule.reps[i]].w]

InitWeights ==
    /\ wheap \in [ObjIds -> {WR(<<B>>, Rat(w, 1), FALSE) : w \in 0..MaxWeight}]
    /\ winput = NoInput
    /\ wrule = NoRule
    /\ pick = NoPick
    /\ wsecond = NoRule
    /\ lsys = [axiom |-> <<>>, rules |-> <<>>, warn |-> FALSE]
    /\ epc = "off"
    /\ data = <<>>
    /\ new_data = <<>>
    /\ yields = <<>>
    /\ diag = 0
    /\ result = NoResult
    /\ outcome = NoOutcome
    /\ ParserOff
    /\ ToolsOff

\* WeightedRule(pattern, [objects ids...]), lines 119-135
Construct ==
    /\ wrule.state = "none"
    /\ \E ids \in IdLists :
          LET built == WeightedRuleInit(wheap, ids)
          IN /\ winput' = [ids |-> ids, heap |-> wheap]
             /\ wheap' = built.heap
             /\ wrule' = IF built.ok
                         THEN [state |-> "built", reps |-> built.reps, warned |-> built.warned]
                         ELSE [state |-> "raised", reps |-> <<>>, warned |-> built.warned]
    /\ UNCHANGED <<pick, wsecond>>
    /\ UNCHANGED <<evars, pvars, tvars>>

\* rule.get_replacement() on the constructed rule, lines 137-148
Pick ==
    /\ wrule.state = "built"
    /\ pick.kind = "none"
    /\ \E u \in Draws :
          IF wrule.reps = <<>>
          THEN pick' = [kind |-> "IndexError", chance |-> u, idx |-> 0, fell |-> TRUE]
          ELSE LET r == random_weighted_choice(StoredWeights, u)
               IN pick' = [kind |-> "picked", chance |-> u, idx |-> r.idx, fell |-> r.fell]
    /\ UNCHANGED <<wheap, winput, wrule, wsecond>>
    /\ UNCHANGED <<evars, pvars, tvars>>

NextWeights == Construct \/ Pick

SpecWeights == InitWeights /\ [][NextWeights]_vars

\* ------------------------------- a second WeightedRule on the same objects
\* WeightedRule(pattern, [object ids...]) once more, lines 119-135, from any
\* list of the objects of the heap, those of the first rule included
ConstructAgain ==
    /\ wrule.state = "built"
    /\ wsecond.state = "none"
    /\ \E ids \in IdLists :
          \E built \in {WeightedRuleInit(wheap, ids)} :
             /\ winput' = [ids |-> ids, heap |-> wheap]
             /\ wheap' = built.heap
             /\ wsecond' = IF built.ok
                           THEN [state |-> "built", reps |-> built.reps, warned |-> built.warned]
                           ELSE [state |-> "raised", reps |-> <<>>, warned |-> built.warned]
    /\ UNCHANGED <<wrule, pick>>
    /\ UNCHANGED <<evars, pvars, tvars>>

NextShared == Construct \/ ConstructAgain

SpecShared == InitWeights /\ [][NextShared]_vars

\* ------------------------------------------------------ the files parsed
\* A grammar file is written from a header variant, the cases of one block for
\* pattern A, the text put between a case and its terminator, and an optional
\* second block for B; or it is a given text.
Quote == "\""
SymA == [k |-> "sym", name |-> <<"A">>]
SymB == [k |-> "sym", name |-> <<"B">>]
QuotedX == [k |-> "lit", name |-> <<"x">>]
CaseTokens == {<<SymB>>, <<QuotedX>>, <<QuotedX, SymB>>}
WeightTexts == {<<>>, <<"1">>, <<"2", ".", "5">>}
Cases == [toks : CaseTokens, wt : WeightTexts]
CaseLists == SeqsUpTo(Cases, MaxCases)
Gaps == {<<>>, <<" ">>, <<"\n">>}
Headers == {"full", "no alphabet", "no axiom"}

HeaderText(h) ==
    CASE h = "full" -> <<"%", "A", ",", "B", "\n", "@", "A", "@", "\n">>
      [] h = "no alphabet" -> <<"@", "A", "@", "\n">>
      [] h = "no axiom" -> <<"%", "A", ",", "B", "\n">>

WriteToken(t) == IF t.k = "lit" THEN <<Quote>> \o t.name \o <<Quote>> ELSE t.name
RECURSIVE WriteTokens(_)
WriteTokens(ts) ==
    IF ts = <<>> THEN <<>>
    ELSE IF Len(ts) = 1 THEN WriteToken(ts[1])
    ELSE WriteToken(ts[1]) \o <<" ">> \o WriteTokens(Tail(ts))
WriteCase(c) == WriteTokens(c.toks) \o (IF c.wt = <<>> THEN <<>> ELSE <<":">> \o c.wt)
RECURSIVE WriteCases(_, _)
WriteCases(cs, gap) ==
    IF Len(cs) = 1 THEN WriteCase(cs[1]) \o gap \o <<"~">>
    ELSE WriteCase(cs[1]) \o gap \o <<"|">> \o WriteCases(Tail(cs), gap)
WriteBlock(name, cs, gap) ==
    <<"$">> \o name \o <<"=">> \o
    (IF cs = <<>> THEN <<"~", "\n">> ELSE <<"\n">> \o WriteCases(cs, gap) \o <<"\n">>)
\* a second block, for B, laid out the way the parser reads back in full
SentinelText == <<"$", "B", "=", "\n", "A", "\n", "~", "\n">>

GrammarText(h, cs, gap, sentinel) ==
    HeaderText(h) \o WriteBlock(<<"A">>, cs, gap) \o (IF sentinel THEN SentinelText ELSE <<>>)

GrammarSources ==
    {[kind |-> "grammar", text |-> GrammarText(h, cs, gap, sen), hdr |-> h, cases |-> cs,
      gap |-> gap, sentinel |-> sen] :
        h \in Headers, cs \in CaseLists, gap \in Gaps, sen \in BOOLEAN}

\* the six-line file of the parser round trip
SixLineText == <<"%", "A", ",", "B", "\n", "@", "A", "@", "\n", "$", "A", "=", "\n", "\"", "x", "\"", "B", "|", "B", ":", "1", "~", "\n", "$", "B", "=", "\n", "\"", "y", "\"", "~", "\n">>
\* a file with a comment, a weighted and a plain case, and every prefix of it
FullText == <<"#", "c", "\n", "%", "A", ",", "B", "\n", "@", "A", "@", "\n", "$", "A", "=", "\n", "\"", "x", "\"", " ", "B", ":", "1", " ", "|", "B", "\n", "~", "\n">>
\* files that meet the remaining exceptions: a block before any pattern header,
\* a letter declared twice, a letter that is no identifier, a total weight of 0
ErrorTexts ==
    {<<"=", "\"", "x", "\"", "\n", "~", "\n">>,
     <<"%", "A", ",", "A", "\n", "@", "A", "@", "\n">>,
     <<"%", "A", ",", "1", "\n", "@", "A", "@", "\n">>,
     <<"%", "A", "\n", "@", "A", "@", "\n", "$", "A", "=", "\n", "A", ":", "0", "~", "\n", "~", "\n">>}
\* pattern headers: a name outside the alphabet, a name with white space
\* around it, a header before the alphabet, a name of two letters
HeaderTexts ==
    {<<"%", "A", ",", "B", "\n", "@", "A", "@", "\n", "$", "C", "=", "\n", "B", "\n", "~", "\n">>,
     <<"%", "A", ",", "B", "\n", "@", "A", "@", "\n", "$", " ", "B", " ", "=", "\n", "A", "\n", "~", "\n">>,
     <<"$", "C", "=", "\n", "\"", "x", "\"", "\n", "~", "\n", "%", "A", ",", "B", "\n", "@", "A", "@", "\n">>,
     <<"%", "A", ",", "B", "\n", "@", "A", "@", "\n", "$", "A", "B", "=", "\n", "B", "\n", "~", "\n">>}
\* files whose declarations come in another order: a block before the
\* alphabet declaration, and a second alphabet declaration after a block
OrderTexts ==
    {<<"$", "A", "=", "\n", "A", "\n", "~", "\n", "%", "A", ",", "B", "\n", "@", "A", "@", "\n">>,
     <<"$", "A", "=", "\n", "B", "\n", "~", "\n", "%", "A", ",", "B", "\n", "@", "A", "@", "\n">>,
     <<"%", "A", ",", "B", "\n", "$", "A", "=", "\n", "B", "\n", "~", "\n",
       "%", "A", ",", "B", "\n", "@", "A", "@", "\n">>,
     <<"%", "A", ",", "B", "\n", "$", "A", "=", "\n", "B", "\n", "~", "\n",
       "%", "A", "\n", "@", "A", "@", "\n">>}
Texts ==
    {SixLineText} \cup ErrorTexts \cup HeaderTexts \cup OrderTexts
    \cup {SubSeq(FullText, 1, n) : n \in 0..Len(FullText)}
TextSources ==
    {[kind |-> "text", text |-> t, hdr |-> "none", cases |-> <<>>, gap |-> <<>>,
      sentinel |-> FALSE] : t \in Texts}

\* files with several blocks, some of them for the same pattern: cases lists
\* the blocks, each a pattern name and its cases; sentinel tells that each
\* block is followed by a line that holds a lone ~
PlainB == [toks |-> <<SymB>>, wt |-> <<>>]
PlainX == [toks |-> <<QuotedX>>, wt |-> <<>>]
RepeatCaseLists ==
    {<<PlainB>>, <<PlainX, PlainB>>, <<[toks |-> <<SymB>>, wt |-> <<"1">>]>>,
     <<[toks |-> <<QuotedX>>, wt |-> <<"2", ".", "5">>]>>}
RepeatBlocks == [name : {<<"A">>, <<"B">>}, cases : RepeatCaseLists]
RepeatBlockLists ==
    {p \in {<<a, b>> : a \in RepeatBlocks, b \in RepeatBlocks} : p[1].name = p[2].name}
    \cup {<<a, b, c>> : a \in RepeatBlocks, b \in RepeatBlocks, c \in RepeatBlocks}
RECURSIVE WriteBlocks(_, _, _)
WriteBlocks(bs, gap, stray) ==
    IF bs = <<>> THEN <<>>
    ELSE WriteBlock(Head(bs).name, Head(bs).cases, gap)
         \o (IF stray THEN <<"~", "\n">> ELSE <<>>)
         \o WriteBlocks(Tail(bs), gap, stray)
RepeatSources ==
    {[kind |-> "blocks", text |-> HeaderText("full") \o WriteBlocks(bs, gap, stray),
      hdr |-> "full", cases |-> bs, gap |-> gap, sentinel |-> stray] :
        bs \in RepeatBlockLists, gap \in {<<>>, <<"\n">>}, stray \in BOOLEAN}

Sources == GrammarSources \cup TextSources \cup RepeatSources

\* ------------------------------------------------------- parser actions
InitParser ==
    /\ source \in Sources
    /\ pbuf = source.text
    /\ pletters = None
    /\ paxiom = None
    /\ ppattern = None
    /\ replacements = <<>>
    /\ genAlphabet \in {ImportedGenAlphabet, LeftGenAlphabet}
    /\ ppc = "top"
    /\ perr = "none"
    /\ returned = genAlphabet
    /\ lsys = [axiom |-> <<>>, rules |-> <<>>, warn |-> FALSE]
    /\ epc = "off"
    /\ data = <<>>
    /\ new_data = <<>>
    /\ yields = <<>>
    /\ diag = 0
    /\ result = NoResult
    /\ outcome = NoOutcome
    /\ wheap = <<>>
    /\ winput = NoInput
    /\ wrule = NoRule
    /\ pick = NoPick
    /\ wsecond = NoRule
    /\ ToolsOff

\* the character the top-level loop reads (line 94)
TopChar == Get(pbuf).c
AfterTop == Get(pbuf).buf

Raise(e) ==
    /\ ppc' = "raised"
    /\ perr' = e

\* lines 95-96 and 133-141: end of input ends the loop; the tests for a
\* missing alphabet or axiom, the transformation and the return
AtEOF ==
    /\ ppc = "top"
    /\ TopChar = EOF
    /\ IF ~pletters.some \/ ~paxiom.some
       THEN /\ Raise("ValueError")
            /\ UNCHANGED <<lsys, epc, returned>>
       ELSE \E t \in {transform_parse_result(paxiom.val, genAlphabet, replacements)} :
               IF t.st # "ok"
               THEN /\ Raise(t.st)
                    /\ UNCHANGED <<lsys, epc, returned>>
               ELSE /\ ppc' = "returned"
                    /\ perr' = "none"
                    /\ returned' = genAlphabet
                    /\ lsys' = [axiom |-> t.axiom, rules |-> t.rules, warn |-> FALSE]
                    /\ epc' = "created"
    /\ pbuf' = AfterTop
    /\ UNCHANGED <<source, pletters, paxiom, ppattern, replacements, genAlphabet>>
    /\ UNCHANGED <<data, new_data, yields, diag, result, outcome, wvars, tvars>>

\* lines 97-98
Comment ==
    /\ ppc = "top"
    /\ TopChar = "#"
    /\ \E r \in {ConsumeToLineEnd(AfterTop)} :
          /\ pbuf' = r.buf
          /\ ppc' = IF r.ok THEN "top" ELSE "diverged"
    /\ UNCHANGED <<source, pletters, paxiom, ppattern, replacements, genAlphabet, perr, returned>>
    /\ UNCHANGED <<evars, wvars, tvars>>

\* lines 99-100
Newline ==
    /\ ppc = "top"
    /\ TopChar = "\n"
    /\ pbuf' = AfterTop
    /\ UNCHANGED <<source, pletters, paxiom, ppattern, replacements, genAlphabet, ppc, perr, returned>>
    /\ UNCHANGED <<evars, wvars, tvars>>

\* lines 102-103
AlphabetDecl ==
    /\ ppc = "top"
    /\ TopChar = "%"
    /\ \E r \in {consume_alphabet(AfterTop, genAlphabet)} :
          /\ pbuf' = r.buf
          /\ genAlphabet' = r.ga
          /\ pletters' = IF r.st = "ok" THEN Some(r.letters) ELSE pletters
          /\ ppc' = IF r.st = "ok" THEN "top" ELSE IF r.st = "diverged" THEN "diverged" ELSE "raised"
          /\ perr' = IF r.st \in {"ok", "diverged"} THEN perr ELSE r.st
    /\ UNCHANGED <<source, paxiom, ppattern, replacements, returned>>
    /\ UNCHANGED <<evars, wvars, tvars>>

\* lines 105-106
AxiomDecl ==
    /\ ppc = "top"
    /\ TopChar = "@"
    /\ \E r \in {consume_axiom(AfterTop)} :
          /\ pbuf' = r.buf
          /\ paxiom' = IF r.st = "ok" THEN Some(r.axiom) ELSE paxiom
          /\ ppc' = IF r.st = "ok" THEN "top" ELSE "diverged"
    /\ UNCHANGED <<source, pletters, ppattern, replacements, genAlphabet, perr, returned>>
    /\ UNCHANGED <<evars, wvars, tvars>>

\* lines 108-109
PatternHeader ==
    /\ ppc = "top"
    /\ TopChar = "$"
    /\ \E r \in {consume_pattern(AfterTop, pletters)} :
          /\ pbuf' = r.buf
          /\ ppattern' = IF r.st = "ok" THEN Some(r.pattern) ELSE ppattern
          /\ ppc' = IF r.st = "ok" THEN "top" ELSE IF r.st = "diverged" THEN "diverged" ELSE "raised"
          /\ perr' = IF r.st \in {"ok", "diverged"} THEN perr ELSE r.st
    /\ UNCHANGED <<source, pletters, paxiom, replacements, genAlphabet, returned>>
    /\ UNCHANGED <<evars, wvars, tvars>>

\* lines 111-131
Block ==
    /\ ppc = "top"
    /\ TopChar = "="
    /\ \E r \in {BlockLoop(AfterTop, genAlphabet, ppattern.some, <<>>)} :
          /\ pbuf' = r.buf
          /\ replacements' = IF r.st = "ok" THEN AppendTo(replacements, ppattern.val, r.cands)
                             ELSE replacements
          /\ ppc' = IF r.st = "ok" THEN "top" ELSE IF r.st = "diverged" THEN "diverged" ELSE "raised"
          /\ perr' = IF r.st \in {"ok", "diverged"} THEN perr ELSE r.st
    /\ UNCHANGED <<source, pletters, paxiom, ppattern, genAlphabet, returned>>
    /\ UNCHANGED <<evars, wvars, tvars>>

\* any other character at the top level is read and dropped
Skip ==
    /\ ppc = "top"
    /\ TopChar \notin {EOF, "#", "\n", "%", "@", "$", "="}
    /\ pbuf' = AfterTop
    /\ UNCHANGED <<source, pletters, paxiom, ppattern, replacements, genAlphabet, ppc, perr, returned>>
    /\ UNCHANGED <<evars, wvars, tvars>>

NextParser ==
    \/ AtEOF \/ Comment \/ Newline \/ AlphabetDecl \/ AxiomDecl \/ PatternHeader \/ Block \/ Skip
    \/ Begin \/ Derive \/ Stop \/ Yield

SpecParser == InitParser /\ [][NextParser]_vars

\* ================================================= Filler (lsystem.py)
\* The placeholders are objects of their own, told apart by identity.
VAR_POS == [k |-> "var", cls |-> 0, name |-> <<>>]
PosVar(n) == [k |-> "var", cls |-> n, name |-> <<>>]
POS_VARS == [n \in 1..10 |-> PosVar(n)]

\* A tuple item of the supplement, here a tuple of one-character strs, each
\* written as its character; a str item is a Lit, a sequence of characters.
Tuple(elems) == [k |-> "tuple", cls |-> 0, name |-> elems]

\* arg in Filler.POS_VARS, and Filler.POS_VARS.index(arg), counted from 0
InPosVars(arg) == \E n \in DOMAIN POS_VARS : POS_VARS[n] = arg
PosVarsIndex(arg) == (CHOOSE n \in DOMAIN POS_VARS : POS_VARS[n] = arg) - 1

\* word[arg_n]: an element of a tuple, a character of a str; both are strs
\* of one character
HasIndex(word, n) == n < Len(word.name)
Subscript(word, n) == Lit(<<word.name[n + 1]>>)

\* the inner loop of the single-slot branch (lines 232-240)
RECURSIVE FillSingle(_, _, _)
FillSingle(recipe, word, acc) ==
    IF recipe = <<>> THEN acc
    ELSE FillSingle(Tail(recipe), word,
                    Append(acc, IF Head(recipe) = VAR_POS THEN word ELSE Head(recipe)))

\* the inner loop of the multi-slot branch (lines 244-258): ok is FALSE when
\* word[arg_n] raised IndexError
RECURSIVE FillMulti(_, _, _)
FillMulti(recipe, word, acc) ==
    IF recipe = <<>> THEN [ok |-> TRUE, result |-> acc]
    ELSE IF InPosVars(Head(recipe))
    THEN IF HasIndex(word, PosVarsIndex(Head(recipe)))
         THEN FillMulti(Tail(recipe), word,
                        Append(acc, Subscript(word, PosVarsIndex(Head(recipe)))))
         ELSE [ok |-> FALSE, result |-> acc]
    ELSE FillMulti(Tail(recipe), word, Append(acc, Head(recipe)))

\* the same loop taking the placeholders in the order they stand in the
\* recipe, not by their number
RECURSIVE FillByOccurrence(_, _, _, _)
FillByOccurrence(recipe, word, acc, seen) ==
    IF recipe = <<>> THEN [ok |-> TRUE, result |-> acc]
    ELSE IF InPosVars(Head(recipe))
    THEN IF HasIndex(word, seen)
         THEN FillByOccurrence(Tail(recipe), word, Append(acc, Subscript(word, seen)), seen + 1)
         ELSE [ok |-> FALSE, result |-> acc]
    ELSE FillByOccurrence(Tail(recipe), word, Append(acc, Head(recipe)), seen)

\* the same loop leaving a placeholder in place when the word is too short
RECURSIVE FillLenient(_, _, _)
FillLenient(recipe, word, acc) ==
    IF recipe = <<>> THEN [ok |-> TRUE, result |-> acc]
    ELSE IF InPosVars(Head(recipe)) /\ HasIndex(word, PosVarsIndex(Head(recipe)))
    THEN FillLenient(Tail(recipe), word,
                     Append(acc, Subscript(word, PosVarsIndex(Head(recipe)))))
    ELSE FillLenient(Tail(recipe), word, Append(acc, Head(recipe)))

FillWordByOccurrence(recipe, word) == FillByOccurrence(recipe, word, <<>>, 0)
FillWordLenient(recipe, word) == FillLenient(recipe, word, <<>>)
FillWord(recipe, word) == FillMulti(recipe, word, <<>>)

InRecipe(recipe, arg) == \E i \in 1..Len(recipe) : recipe[i] = arg

\* the factory of spread(): lambda res, _: res
SpreadFactory(res) == res

NoItem == Lit(<<>>)
RECURSIVE spread_impl(_, _, _)
\* the multi-slot branch once the inner loop has run: the ValueError raised
\* from the IndexError carries the word in its message
MultiStep(recipe, supplement, results, filled) ==
    IF filled.ok
    THEN spread_impl(recipe, Tail(supplement), Append(results, SpreadFactory(filled.result)))
    ELSE [kind |-> "ValueError", val |-> <<>>, item |-> Head(supplement)]

\* Filler._spread_impl: the loop over the supplement
spread_impl(recipe, supplement, results) ==
    IF supplement = <<>> THEN [kind |-> "list", val |-> results, item |-> NoItem]
    ELSE IF InRecipe(recipe, VAR_POS)
    THEN spread_impl(recipe, Tail(supplement),
                     Append(results, SpreadFactory(FillSingle(recipe, Head(supplement), <<>>))))
    ELSE MultiStep(recipe, supplement, results, FillWord(recipe, Head(supplement)))

spread(recipe, supplement) == spread_impl(recipe, supplement, <<>>)

\* ------------------------------------------------------- the calls explored
RecipeArgs == {A, B, VAR_POS} \cup {PosVar(n) : n \in 1..MaxSlots}
Recipes == SeqsUpTo(RecipeArgs, MaxRecipe)
ItemParts == {"x", "y"}
Items == {Lit(<<"x">>), Lit(<<"x", "y">>)} \cup {Tuple(q) : q \in SeqsUpTo(ItemParts, MaxSlots)}
\* supplements of no item, of one and of two
Supplements == {<<>>} \cup {<<i>> : i \in Items} \cup {<<i, j>> : i \in Items, j \in Items}

EngineIdle ==
    /\ lsys = [axiom |-> <<>>, rules |-> <<>>, warn |-> FALSE]
    /\ epc = "off"
    /\ data = <<>>
    /\ new_data = <<>>
    /\ yields = <<>>
    /\ diag = 0
    /\ result = NoResult
    /\ outcome = NoOutcome
WeightsIdle ==
    /\ wheap = <<>>
    /\ winput = NoInput
    /\ wrule = NoRule
    /\ pick = NoPick
    /\ wsecond = NoRule

InitFiller ==
    /\ frecipe \in Recipes
    /\ fsupplement \in Supplements
    /\ fpc = "ready"
    /\ fresult = NoSpread
    /\ ConverterOff
    /\ WalksOff
    /\ EngineIdle
    /\ WeightsIdle
    /\ ParserOff

\* Filler(*frecipe).spread(fsupplement)
Spread ==
    /\ fpc = "ready"
    /\ fresult' = spread(frecipe, fsupplement)
    /\ fpc' = "done"
    /\ UNCHANGED <<frecipe, fsupplement, rc, cpc, ctemplates, cresult, walks, evars, wvars, pvars>>

NextFiller == Spread

SpecFiller == InitFiller /\ [][NextFiller]_vars

\* ========================================== RuleConverter (lsystem.py)
\* Strings are sequences of characters. The example Alphabet of lsystem.py.
AlphabetNames == {<<"A">>, <<"B">>, <<"C">>}

\* text[i:].startswith(d), with i counted from 1
StartsWithAt(text, i, d) ==
    /\ i + Len(d) - 1 <= Len(text)
    /\ SubSeq(text, i, i + Len(d) - 1) = d
startswith(c, d) == StartsWithAt(c, 1, d)
endswith(c, d) == Len(d) <= Len(c) /\ SubSeq(c, Len(c) - Len(d) + 1, Len(c)) = d

\* where the end delimiter can stand for a match of start.+?end begun at i;
\* the characters explored hold no newline, so . matches each of them
EndsFrom(text, i, conv) ==
    {j \in (i + Len(conv.start) + 1)..Len(text) : StartsWithAt(text, j, conv.end)}
Least(S) == CHOOSE x \in S : \A y \in S : x <= y
\* the last index of the match of self.reg at i, or 0 when it does not match
\* there: .+? takes as few characters as it can
MatchEnd(text, i, conv) ==
    IF StartsWithAt(text, i, conv.start) /\ EndsFrom(text, i, conv) # {}
    THEN Least(EndsFrom(text, i, conv)) + Len(conv.end) - 1
    ELSE 0

\* self.reg.split(replacement_str): the runs between the matches and, for
\* the capturing group, the matches themselves; from is where the run in
\* progress began, i the place the next match is looked for
RECURSIVE RegSplit(_, _, _, _, _)
SplitAt(text, i, from, conv, pieces, e) ==
    IF e = 0 THEN RegSplit(text, i + 1, from, conv, pieces)
    ELSE RegSplit(text, e + 1, e + 1, conv,
                  pieces \o <<SubSeq(text, from, i - 1), SubSeq(text, i, e)>>)
RegSplit(text, i, from, conv, pieces) ==
    IF i > Len(text) THEN Append(pieces, SubSeq(text, from, Len(text)))
    ELSE SplitAt(text, i, from, conv, pieces, MatchEnd(text, i, conv))

NonEmpty(c) == c # <<>>
\* contents = [i for i in self.reg.split(replacement_str) if i]
Contents(text, conv) == SelectSeq(RegSplit(text, 1, 1, conv, <<>>), NonEmpty)

\* c[1:-1]
Inner(c) == SubSeq(c, 2, Len(c) - 1)

\* the loop over contents (lines 291-295); ok is FALSE when
\* self.alphabet[c[1:-1]] raised KeyError
RECURSIVE ConvertPieces(_, _, _)
ConvertPieces(contents, conv, replacement) ==
    IF contents = <<>> THEN [ok |-> TRUE, toks |-> replacement]
    ELSE IF startswith(Head(contents), conv.start) /\ endswith(Head(contents), conv.end)
    THEN IF Inner(Head(contents)) \in AlphabetNames
         THEN ConvertPieces(Tail(contents), conv,
                            Append(replacement, Sym(0, Inner(Head(contents)))))
         ELSE [ok |-> FALSE, toks |-> replacement]
    ELSE ConvertPieces(Tail(contents), conv, Append(replacement, Lit(Head(contents))))

\* one template: its replacement, or the KeyError
ConvertTemplate(text, conv) == ConvertPieces(Contents(text, conv), conv, <<>>)

\* RuleConverter.convert: the loop over the templates
RECURSIVE ConvertLoop(_, _, _, _)
ConvertStep(pattern, s, conv, repls, r) ==
    IF r.ok THEN ConvertLoop(pattern, Tail(s), conv, Append(repls, Cand(r.toks)))
    ELSE [kind |-> "KeyError", rule |-> LeafRule(pattern)]
ConvertLoop(pattern, s, conv, repls) ==
    IF s = <<>> THEN [kind |-> "Rule", rule |-> Rule(pattern, repls)]
    ELSE ConvertStep(pattern, s, conv, repls, ConvertTemplate(Head(s), conv))
convert(conv, pattern, s) == ConvertLoop(pattern, s, conv, <<>>)

\* ----------------------------------------------------- the calls explored
Delimiters ==
    {[start |-> <<"@">>, end |-> <<"@">>],
     [start |-> <<"<">>, end |-> <<">">>],
     [start |-> <<"<", "<">>, end |-> <<">", ">">>]}
TemplateChars == {"@", "<", ">", "B", "x"}
ShortTemplates == SeqsUpTo(TemplateChars, MaxTemplate)
\* the templates of more.py and of the spec, and some with two-character
\* delimiters
LongTemplates ==
    {<<"@", "B", "@", "@", "B", "@">>,
     <<"@", "B", "@", " ", "a", "n", "d", " ", "@", "B", "@">>,
     <<"@", "A", "@">>,
     <<"@", "B", "@", "@">>,
     <<"x", "@", "B", "@", "x", "x">>,
     <<"<", "B", ">", "x", "<", "A", ">">>,
     <<"<", "<", "B", ">", ">">>,
     <<"<", "<", "B", ">", ">", "x", "<", "<", "A", ">", ">">>}
Templates == ShortTemplates \cup LongTemplates
TemplateLists ==
    {<<>>, <<<<"@", "B", "@">>, <<"@", "A", "@">>, <<>>>>}
    \cup {<<t>> : t \in Templates}
    \cup {<<t, u>> : t \in LongTemplates, u \in Templates}

InitConverter ==
    /\ rc \in Delimiters
    /\ ctemplates \in TemplateLists
    /\ cpc = "ready"
    /\ cresult = NoConvert
    /\ FillerOff
    /\ WalksOff
    /\ EngineIdle
    /\ WeightsIdle
    /\ ParserOff

\* rc.convert(Alphabet.A, *ctemplates)
Convert ==
    /\ cpc = "ready"
    /\ cresult' = convert(rc, A, ctemplates)
    /\ cpc' = "done"
    /\ UNCHANGED <<rc, ctemplates, fpc, frecipe, fsupplement, fresult, walks, evars, wvars, pvars>>

NextConverter == Convert

SpecConverter == InitConverter /\ [][NextConverter]_vars

\* ================================ several expand() walks of one LSystem
\* The two generators; each has a frame of its own (data, new_data).
Walks == {1, 2}
NoFrame == [pc |-> "idle", data |-> <<>>, new_data |-> <<>>, yields |-> <<>>]
WalkSystems == {s \in Systems : ~s.warn /\ Len(s.axiom) = 1}

\* data kept in one place for all the generators
DataOfFirst(ws, w) == ws[1].data
\* the local data of generator w
DataOf(ws, w) == ws[w].data

InitWalks ==
    /\ lsys \in WalkSystems
    /\ walks = [w \in Walks |-> NoFrame]
    /\ epc = "off"
    /\ data = <<>>
    /\ new_data = <<>>
    /\ yields = <<>>
    /\ diag = 0
    /\ result = NoResult
    /\ outcome = NoOutcome
    /\ WeightsIdle
    /\ ParserOff
    /\ FillerOff
    /\ ConverterOff

WalkFrame ==
    UNCHANGED <<lsys, epc, data, new_data, yields, diag, result, outcome, wvars, pvars,
                fpc, frecipe, fsupplement, fresult, rc, cpc, ctemplates, cresult>>

\* line 158: a call of expand(), and the first next() of its generator; a
\* walk that has ended can be followed by a new call
WCall(w) ==
    /\ walks[w].pc \in {"idle", "done", "raised"}
    /\ walks' = [walks EXCEPT ![w] = [pc |-> "loop", data |-> lsys.axiom,
                                      new_data |-> <<>>, yields |-> <<>>]]
    /\ WalkFrame

\* lines 160-169
WDerive(w) ==
    /\ walks[w].pc = "loop"
    /\ Len(walks[w].yields) < MaxYields
    /\ ~StepRaises(lsys.rules, DataOf(walks, w))
    /\ \E nd \in Derivations(lsys.rules, DataOf(walks, w)) :
          /\ Len(nd) <= MaxLen
          /\ walks' = [walks EXCEPT ![w].new_data = nd, ![w].pc = "built"]
    /\ WalkFrame

\* an exception of get_replacement() ends the generator
WRaises(w) ==
    /\ walks[w].pc = "loop"
    /\ StepRaises(lsys.rules, DataOf(walks, w))
    /\ walks' = [walks EXCEPT ![w].pc = "raised"]
    /\ WalkFrame

\* lines 170-171
WStop(w) ==
    /\ walks[w].pc = "built"
    /\ DataOf(walks, w) = walks[w].new_data
    /\ walks' = [walks EXCEPT ![w].pc = "done"]
    /\ WalkFrame

\* lines 172-173
WYield(w) ==
    /\ walks[w].pc = "built"
    /\ DataOf(walks, w) # walks[w].new_data
    /\ walks' = [walks EXCEPT ![w].data = walks[w].new_data,
                              ![w].yields = Append(walks[w].yields, walks[w].new_data),
                              ![w].pc = "loop"]
    /\ WalkFrame

NextWalks ==
    \E w \in Walks : WCall(w) \/ WDerive(w) \/ WRaises(w) \/ WStop(w) \/ WYield(w)

SpecWalks == InitWalks /\ [][NextWalks]_vars

\* ================================================================ claims
IsPrefixOf(seg, s) == Len(seg) <= Len(s) /\ SubSeq(s, 1, Len(seg)) = seg
DropFirst(s, n) == SubSeq(s, n + 1, Len(s))

MatchingRules(rules, tok) == {i \in 1..Len(rules) : rules[i].pattern = tok}

\* the results C1 allows for one token: the tokens of a candidate of a rule with
\* that pattern, the token itself when no rule has that pattern
ClaimedResults(rules, tok) ==
    IF MatchingRules(rules, tok) = {} THEN {<<tok>>}
    ELSE UNION {{rules[i].reps[j].toks : j \in 1..Len(rules[i].reps)} :
                  i \in MatchingRules(rules, tok)}

\* as ClaimedResults, for the first rule with that pattern, and the token itself
\* when that rule has no candidates
AmendedResults(rules, tok) ==
    LET M == MatchingRules(rules, tok)
    IN IF M = {} THEN {<<tok>>}
       ELSE LET i == CHOOSE m \in M : \A m2 \in M : m <= m2
            IN IF rules[i].reps = <<>> THEN {<<tok>>}
               ELSE {rules[i].reps[j].toks : j \in 1..Len(rules[i].reps)}

RECURSIVE IsClaimedStep(_, _, _)
IsClaimedStep(rules, d, nd) ==
    IF d = <<>> THEN nd = <<>>
    ELSE \E seg \in ClaimedResults(rules, Head(d)) :
            /\ IsPrefixOf(seg, nd)
            /\ IsClaimedStep(rules, Tail(d), DropFirst(nd, Len(seg)))

RECURSIVE IsAmendedStep(_, _, _)
IsAmendedStep(rules, d, nd) ==
    IF d = <<>> THEN nd = <<>>
    ELSE \E seg \in AmendedResults(rules, Head(d)) :
            /\ IsPrefixOf(seg, nd)
            /\ IsAmendedStep(rules, Tail(d), DropFirst(nd, Len(seg)))

GenerationBefore(k) == IF k = 1 THEN lsys.axiom ELSE yields[k - 1]

C2_YieldUntilFixpoint ==
    /\ epc = "done" => data = new_data
    /\ \A k \in 1..Len(yields) : yields[k] # GenerationBefore(k)
    /\ epc \in {"loop", "built", "done"} =>
          data = (IF yields = <<>> THEN lsys.axiom ELSE yields[Len(yields)])
    /\ epc = "loop" /\ yields # <<>> => yields[Len(yields)] = new_data

C2_Witness ==
    /\ epc = "done"
    /\ Len(yields) >= 2
    /\ yields[Len(yields)] = data

\* canonical text of a generation: Symbols by their short text, Literals verbatim
RECURSIVE Render(_)
Render(toks) ==
    IF toks = <<>> THEN <<>>
    ELSE (IF IsSym(Head(toks)) THEN StrOfSym(Head(toks)) ELSE Head(toks).name)
         \o Render(Tail(toks))

\* C3: when the walk has reached its fixpoint, realize() has returned the text
\* of the final generation, whatever tokens it holds and whether or not a
\* generation was yielded.
C3_RealizeReturnsText ==
    epc = "done" => outcome = [kind |-> "str", text |-> Render(data)]

\* ------------------------------------------------------------ C4 to C8
\* the tokens a case of the grammar stands for, over the class parse() returns
TokenOf(t) == IF t.k = "lit" THEN Lit(t.name) ELSE Sym(genAlphabet.cls, t.name)
TokensOf(ts) == [i \in 1..Len(ts) |-> TokenOf(ts[i])]
GenA == Sym(genAlphabet.cls, <<"A">>)
GenB == Sym(genAlphabet.cls, <<"B">>)

\* the rule the second block stands for, when the file has one
SentinelRules == IF source.sentinel THEN <<Rule(GenB, <<Cand(<<GenA>>)>>)>> ELSE <<>>

FullGrammar == source.kind = "grammar" /\ source.hdr = "full"
Unweighted(cs) == cs # <<>> /\ \A i \in 1..Len(cs) : cs[i].wt = <<>>
AllWeighted(cs) == cs # <<>> /\ \A i \in 1..Len(cs) : cs[i].wt # <<>>

\* C4: parsing the six-line source returns the alphabet {A, B}, the axiom [A],
\* pattern A as a WeightedRule whose single candidate ["x", B] has weight 1,
\* and pattern B as a plain Rule whose sole candidate is ["y"].
C4_SixLineSource ==
    (source.text = SixLineText /\ ppc # "top") =>
        /\ ppc = "returned"
        /\ returned.members = <<<<"A">>, <<"B">>>>
        /\ lsys.axiom = <<GenA>>
        /\ Len(lsys.rules) = 2
        /\ lsys.rules[1].kind = "WeightedRule"
        /\ lsys.rules[1].pattern = GenA
        /\ Len(lsys.rules[1].reps) = 1
        /\ lsys.rules[1].reps[1].toks = <<Lit(<<"x">>), GenB>>
        /\ lsys.rules[1].reps[1].w = Rat(1, 1)
        /\ lsys.rules[2] = Rule(GenB, <<Cand(<<Lit(<<"y">>)>>)>>)

HasAlphabetDecl(t) == \E i \in 1..Len(t) : t[i] = "%"
HasAxiomDecl(t) == \E i, j \in 1..Len(t) : i < j /\ t[i] = "@" /\ t[j] = "@"

\* C5: a parse of a source without an alphabet declaration or without an
\* axiom declaration ends in an exception and returns nothing; every parse
\* returns a grammar or raises, so none is left reading for ever.
C5_ReturnsOrRaises ==
    /\ ppc # "diverged"
    /\ (~HasAlphabetDecl(source.text) \/ ~HasAxiomDecl(source.text)) => ppc # "returned"

\* C6: a block of unweighted cases gives its pattern one candidate per case,
\* in source order, each with that case's tokens in order; the block ends at
\* its ~ whatever the last token is, and what follows the ~ is parsed as
\* usual.
C6_UnweightedBlock ==
    (FullGrammar /\ Unweighted(source.cases) /\ ppc # "top") =>
        /\ ppc = "returned"
        /\ lsys.rules =
             <<Rule(GenA, [i \in 1..Len(source.cases) |-> Cand(TokensOf(source.cases[i].toks))])>>
             \o SentinelRules

\* C7: a case that ends in : and a weight directly followed by | or ~ becomes
\* one WeightedReplacement with that case's tokens and that weight; the next
\* case or declaration is parsed unchanged and no extra candidate is added.
C7_WeightedBlock ==
    (FullGrammar /\ AllWeighted(source.cases) /\ source.gap = <<>> /\ ppc # "top") =>
        /\ ppc = "returned"
        /\ lsys.rules =
             <<WeightedRule(GenA, [i \in 1..Len(source.cases) |->
                                     WCandF(TokensOf(source.cases[i].toks),
                                            WeightValue(source.cases[i].wt),
                                            DotCount(source.cases[i].wt) > 0)]).rule>>
             \o SentinelRules

\* C8: a pattern header followed by =~ gives the pattern no candidates, and
\* every generation of the returned system rewrites a token of that pattern
\* to itself, as a LeafRule for the pattern would.
C8_EmptyBlockIsLeaf ==
    (FullGrammar /\ source.cases = <<>> /\ ppc = "returned") =>
        /\ lsys.rules[1].pattern = GenA
        /\ lsys.rules[1].reps = <<>>
        /\ epc = "built" => new_data \in Derivations(<<LeafRule(GenA)>> \o SentinelRules, data)

\* ---------------------------------------------------------- C11 to C20
\* C11: when a derivation step applied to a generation G of the walk gives G
\* again, generation 0 included, expand() ends and the last value it yielded
\* is G.
C11_FixpointIsLastYield ==
    epc = "done" =>
        /\ data = new_data
        /\ yields # <<>>
        /\ yields[Len(yields)] = data

NoRuleFor(tok) == IsSym(tok) /\ FirstMatch(lsys.rules, tok, 1) = 0
HoldsUnmatched(gen) == \E i \in 1..Len(gen) : NoRuleFor(gen[i])
Count(gen, tok) == Cardinality({i \in 1..Len(gen) : gen[i] = tok})

\* C12: with warn = False a Symbol without a rule is kept by every step,
\* nothing is printed for it, and nothing is raised: the output is made with
\* the Symbol in it.
C12_UnmatchedSymbolIsTerminal ==
    (~lsys.warn /\ HoldsUnmatched(data)) =>
        /\ epc = "built" =>
              \A i \in 1..Len(data) :
                  NoRuleFor(data[i]) => Count(new_data, data[i]) >= Count(data, data[i])
        /\ diag = 0
        /\ epc = "done" => outcome = [kind |-> "str", text |-> Render(data)]

\* a pattern header read with the alphabet declared, and the name it gives
HeaderAt == ppc = "top" /\ TopChar = "$" /\ pletters.some /\ SeqHas(AfterTop, "=")
HeaderName ==
    Strip(SelectSeq(SubSeq(AfterTop, 1, FirstIndex(AfterTop, {"="}) - 1), NotNewline))
BlockAt == ppc = "top" /\ TopChar = "=" /\ ppattern.some

\* the step a pattern header takes
HeaderChecked ==
    HeaderAt =>
        IF SeqHas(pletters.val, HeaderName)
        THEN ppc' = "top" /\ perr' = perr /\ ppattern' = Some(HeaderName)
        ELSE /\ ppc' = "raised" /\ perr' = "ValueError"
             /\ replacements' = replacements /\ ppattern' = ppattern
             /\ Head(pbuf') = "="

\* the step a block takes when it ends: the current pattern has more cases
BlockFillsPattern ==
    (BlockAt /\ ppc' = "top") =>
        \E i \in 1..Len(replacements') :
            /\ replacements'[i].pat = ppattern.val
            /\ \A j \in 1..Len(replacements) :
                  replacements[j].pat = ppattern.val =>
                      Len(replacements'[i].cands) > Len(replacements[j].cands)

\* C13: with the alphabet declared, a pattern header whose name is not in it
\* makes parse() raise at once, before any case of the pattern is read; a
\* header whose name is in it is accepted, and the block that follows adds
\* its cases to that pattern.
C13_PatternHeaderValidated == [][HeaderChecked /\ BlockFillsPattern]_vars

C13_Witness ==
    /\ ppc = "raised" /\ perr = "ValueError"
    /\ pletters.some /\ paxiom.some
    /\ ppattern = None
    /\ pbuf # <<>> /\ Head(pbuf) = "="

\* parse() at the end of the file, with alphabet and axiom declared and every
\* name it has met a member of the alphabet
Finalizing == ppc = "top" /\ TopChar = EOF /\ pletters.some /\ paxiom.some
NamesKnown ==
    /\ \A i \in 1..Len(paxiom.val) : SeqHas(genAlphabet.members, paxiom.val[i])
    /\ \A i \in 1..Len(replacements) : SeqHas(genAlphabet.members, replacements[i].pat)
FirstWeighted(e) == IsWeighted(e.cands[1])
Mixed(e) == \E i, j \in 1..Len(e.cands) : IsWeighted(e.cands[i]) /\ ~IsWeighted(e.cands[j])
\* weights are written with digits, so none is negative: the total is 0 when
\* every weight is
ZeroTotal(e) == \A i \in 1..Len(e.cands) : IsWeighted(e.cands[i]) /\ e.cands[i].w.n = 0

\* the rule of every pattern has the kind its first candidate asks for
KindByFirst(rules, repl) ==
    /\ Len(rules) = Len(repl)
    /\ \A i \in 1..Len(repl) :
          /\ rules[i].pattern = Sym(genAlphabet.cls, repl[i].pat)
          /\ Len(rules[i].reps) = Len(repl[i].cands)
          /\ IF FirstWeighted(repl[i])
             THEN rules[i].kind = "WeightedRule"
             ELSE rules[i].kind = "Rule" /\ rules[i].reps = repl[i].cands

\* C14 as stated: every pattern becomes a rule, a WeightedRule when its first
\* candidate is weighted and a plain Rule otherwise, mixed patterns included.
C14_AsStated ==
    [][(Finalizing /\ NamesKnown /\ (\A i \in 1..Len(replacements) : ~ZeroTotal(replacements[i])))
         => (ppc' = "returned" /\ KindByFirst(lsys'.rules, replacements))]_vars

\* the step of finalization
FinalizedByFirst ==
    (Finalizing /\ NamesKnown) =>
        IF \E i \in 1..Len(replacements) :
              FirstWeighted(replacements[i])
              /\ (Mixed(replacements[i]) \/ ZeroTotal(replacements[i]))
        THEN ppc' = "raised" /\ perr' \in {"AttributeError", "ZeroDivisionError"}
        ELSE ppc' = "returned" /\ KindByFirst(lsys'.rules, replacements)

\* C14: at finalization a pattern is dispatched on its first candidate only.
\* Plain first: a plain Rule with all the candidates as accumulated, weighted
\* ones among them.  Weighted first: a WeightedRule, which is built only when
\* every candidate is weighted and the total is not 0; a weighted-first
\* pattern with an unweighted candidate makes parse() raise.
C14_RuleKindByFirstCandidate == [][FinalizedByFirst]_vars

C14_Witness ==
    /\ ppc = "returned"
    /\ \E i \in 1..Len(lsys.rules) :
          /\ lsys.rules[i].kind = "Rule"
          /\ Mixed([cands |-> lsys.rules[i].reps])

\* ---- Filler.spread
IsVar(arg) == arg.k = "var"
SingleSlot(recipe) == InRecipe(recipe, VAR_POS)
MixedRecipe(recipe) == SingleSlot(recipe) /\ \E i \in 1..Len(recipe) : InPosVars(recipe[i])
\* the word has the position that the numbered placeholder arg names
Serves(word, arg) == InPosVars(arg) => arg.cls <= Len(word.name)
ServesAll(recipe, word) == \A j \in 1..Len(recipe) : Serves(word, recipe[j])
\* what stands in the Replacement where arg stands in the recipe
Filled(recipe, arg, word) ==
    IF SingleSlot(recipe)
    THEN IF arg = VAR_POS THEN word ELSE arg
    ELSE IF InPosVars(arg) THEN Lit(<<word.name[arg.cls]>>) ELSE arg
Spreadable ==
    SingleSlot(frecipe) \/ \A i \in 1..Len(fsupplement) : ServesAll(frecipe, fsupplement[i])

\* C15: spread() returns one Replacement per item, in input order, each the
\* recipe with its tokens kept in place and its placeholders replaced: the
\* generic placeholder by the item in single-slot mode, placeholder number k
\* by element k of the item in multi-slot mode, wherever it stands; in a
\* recipe of one mode no placeholder is left.
C15_SpreadFillsRecipe ==
    (fpc = "done" /\ Spreadable) =>
        /\ fresult.kind = "list"
        /\ Len(fresult.val) = Len(fsupplement)
        /\ \A i \in 1..Len(fsupplement) :
            /\ Len(fresult.val[i]) = Len(frecipe)
            /\ \A j \in 1..Len(frecipe) :
                /\ fresult.val[i][j] = Filled(frecipe, frecipe[j], fsupplement[i])
                /\ ~MixedRecipe(frecipe) => ~IsVar(fresult.val[i][j])

\* a multi-slot recipe with placeholder 2 standing before placeholder 1,
\* spread over two different tuples
C15_Witness ==
    /\ fpc = "done"
    /\ fresult.kind = "list"
    /\ frecipe = <<A, PosVar(2), PosVar(1)>>
    /\ fsupplement = <<Tuple(<<"x", "y">>), Tuple(<<"y", "y">>)>>
    /\ fresult.val = << <<A, Lit(<<"y">>), Lit(<<"x">>)>>, <<A, Lit(<<"y">>), Lit(<<"y">>)>> >>

\* the first item of the supplement that lacks a position of the recipe
FirstShort(recipe, supplement) ==
    CHOOSE i \in 1..Len(supplement) :
        /\ ~ServesAll(recipe, supplement[i])
        /\ \A h \in 1..(i - 1) : ServesAll(recipe, supplement[h])

\* C16: in multi-slot mode an item that lacks a position of the recipe makes
\* spread() raise the error of the failed index (IndexError, re-raised as the
\* ValueError whose message holds the item), and nothing is returned.
C16_ShortItemRaises ==
    (fpc = "done" /\ ~Spreadable) =>
        /\ fresult.kind = "ValueError"
        /\ fresult.item = fsupplement[FirstShort(frecipe, fsupplement)]
        /\ fresult.val = <<>>

\* the second item is the short one
C16_Witness ==
    /\ fpc = "done"
    /\ fresult.kind = "ValueError"
    /\ Len(fsupplement) = 2
    /\ ServesAll(frecipe, fsupplement[1])
    /\ fresult.item = fsupplement[2]
    /\ fsupplement[2].k = "tuple"
    /\ fsupplement[1] # fsupplement[2]

\* ---- RuleConverter.convert
\* A piece of a template is a bracketed run when the regular expression
\* matches it whole; its name is what stands between the delimiters.
Bracketed(c, conv) ==
    /\ MatchEnd(c, 1, conv) = Len(c)
    /\ Len(c) > 0
BracketedName(c, conv) == SubSeq(c, Len(conv.start) + 1, Len(c) - Len(conv.end))
\* the tokens stated for the pieces of one template: the Symbol of each
\* bracketed name, the Literal of each other run; ok is FALSE when a
\* bracketed name is not in the alphabet
RECURSIVE ConvertBracketed(_, _, _)
ConvertBracketed(contents, conv, replacement) ==
    IF contents = <<>> THEN [ok |-> TRUE, toks |-> replacement]
    ELSE IF Bracketed(Head(contents), conv)
    THEN IF BracketedName(Head(contents), conv) \in AlphabetNames
         THEN ConvertBracketed(Tail(contents), conv,
                               Append(replacement, Sym(0, BracketedName(Head(contents), conv))))
         ELSE [ok |-> FALSE, toks |-> replacement]
    ELSE ConvertBracketed(Tail(contents), conv, Append(replacement, Lit(Head(contents))))
StatedFor(text) == ConvertBracketed(Contents(text, rc), rc, <<>>)
\* a run that holds a start delimiter closed at once by an end delimiter, a
\* bracket around no name: the statement is not read as covering it
EmptyBracket(c, conv) ==
    /\ ~Bracketed(c, conv)
    /\ \E i \in 1..Len(c) : StartsWithAt(c, i, conv.start \o conv.end)
Covered(text) ==
    \A i \in 1..Len(Contents(text, rc)) : ~EmptyBracket(Contents(text, rc)[i], rc)

\* C17: convert(pattern, t1..tn) returns a Rule for the pattern with n
\* Replacements in template order, each bracketed run turned into the Symbol
\* of its name and each other non-empty run into one Literal of that text;
\* a bracketed name outside the alphabet is an error.
C17_ConvertBrackets ==
    (cpc = "done" /\ \A i \in 1..Len(ctemplates) : Covered(ctemplates[i])) =>
        IF \A i \in 1..Len(ctemplates) : StatedFor(ctemplates[i]).ok
        THEN /\ cresult.kind = "Rule"
             /\ cresult.rule.kind = "Rule"
             /\ cresult.rule.pattern = A
             /\ Len(cresult.rule.reps) = Len(ctemplates)
             /\ \A i \in 1..Len(ctemplates) :
                    cresult.rule.reps[i] = Cand(StatedFor(ctemplates[i]).toks)
        ELSE cresult.kind = "KeyError"

\* ---- two walks over one LSystem
\* what came before the k-th yield of a walk
Before(axiom, ys, k) == IF k = 1 THEN axiom ELSE ys[k - 1]
\* a frame that a walk run alone over sys can be in: every yield is a
\* derivation of the one before it (of the axiom for the first) and differs
\* from it, data is the last of them, and the candidate is derived from data
LoneWalk(sys, f) ==
    \/ f = NoFrame
    \/ /\ \A k \in 1..Len(f.yields) :
            /\ f.yields[k] \in Derivations(sys.rules, Before(sys.axiom, f.yields, k))
            /\ f.yields[k] # Before(sys.axiom, f.yields, k)
       /\ f.data = Before(sys.axiom, f.yields, Len(f.yields) + 1)
       /\ f.pc \in {"built", "done"} => f.new_data \in Derivations(sys.rules, f.data)
       /\ f.pc = "done" => f.new_data = f.data
       /\ f.pc = "raised" => StepRaises(sys.rules, f.data)
Called(w) == walks[w].pc \in {"idle", "done", "raised"} /\ walks'[w].pc = "loop"
WalkStep ==
    /\ lsys' = lsys
    /\ \A w \in Walks :
        /\ LoneWalk(lsys', walks'[w])
        /\ Called(w) => walks'[w].data = lsys.axiom /\ walks'[w].yields = <<>>

\* C18: no step of expand() changes the LSystem's axiom or rules, every call
\* starts from the axiom, and however two walks over one LSystem are
\* interleaved, each is in a state and has yielded a sequence that a walk
\* run alone can reach.
C18_WalksIndependent == [][WalkStep]_vars

\* two walks of one system that are at different places and have yielded
\* different sequences, the second one after a new call
C18_Witness ==
    /\ walks # <<>>
    /\ Len(walks[1].yields) >= 2
    /\ Len(walks[2].yields) = 1
    /\ walks[1].yields[1] # walks[2].yields[1]
    /\ walks[1].pc = "built"
    /\ walks[2].pc = "done"

\* ---- several blocks for one pattern
\* the pattern names of the blocks, each once, in order of its first block
RECURSIVE FirstNames(_, _)
FirstNames(bs, seen) ==
    IF bs = <<>> THEN seen
    ELSE FirstNames(Tail(bs), IF SeqHas(seen, Head(bs).name) THEN seen
                              ELSE Append(seen, Head(bs).name))
\* the cases of all the blocks for one name, in source order
RECURSIVE CasesFor(_, _)
CasesFor(bs, name) ==
    IF bs = <<>> THEN <<>>
    ELSE (IF Head(bs).name = name THEN Head(bs).cases ELSE <<>>) \o CasesFor(Tail(bs), name)
\* rule i is the one rule for names[i], and its candidates are the cases
\* written for that name, one for one and in that order
RuleHolds(rule, name, cs) ==
    /\ rule.pattern = Sym(genAlphabet.cls, name)
    /\ Len(rule.reps) = Len(cs)
    /\ \A j \in 1..Len(cs) : rule.reps[j].toks = TokensOf(cs[j].toks)
RulesHold(rules, bs, names) ==
    /\ Len(rules) = Len(names)
    /\ \A i \in 1..Len(names) : RuleHolds(rules[i], names[i], CasesFor(bs, names[i]))

\* C19: the grammar parse() returns has one rule per pattern symbol, in
\* order of each pattern's first block, and the rule's candidates are the
\* cases of all the blocks for that symbol, in source order.
C19_OneRulePerPattern ==
    (ppc = "returned" /\ source.kind = "blocks") =>
        RulesHold(lsys.rules, source.cases, FirstNames(source.cases, <<>>))

\* ---- the alphabet of the result
OfClass(ga, t) == IsSym(t) => (t.cls = ga.cls /\ SeqHas(ga.members, t.name))
AllOfClass(ga, ts) == \A i \in 1..Len(ts) : OfClass(ga, ts[i])
RuleOfClass(ga, rule) ==
    /\ OfClass(ga, rule.pattern)
    /\ \A j \in 1..Len(rule.reps) : AllOfClass(ga, rule.reps[j].toks)
\* a Symbol of some candidate of the result that is no member of the
\* returned class
ForeignCandidate ==
    \E i \in 1..Len(lsys.rules) :
        \E j \in 1..Len(lsys.rules[i].reps) : ~AllOfClass(returned, lsys.rules[i].reps[j].toks)

\* C21: in the grammar a parse() call returns, every Symbol of the axiom,
\* of every rule pattern and of every candidate is a member of the
\* alphabet class that same call returns, in whatever order the source
\* declares things.
C21_SymbolsOfReturnedAlphabet ==
    ppc = "returned" =>
        /\ AllOfClass(returned, lsys.axiom)
        /\ \A i \in 1..Len(lsys.rules) : RuleOfClass(returned, lsys.rules[i])

\* ---- end of input
ConstructEnds == ppc = "top" => ppc' # "diverged"

\* C20: parse() comes to an end on every source text: whatever construct the
\* top-level loop enters (a comment, an alphabet list, an axiom, a pattern
\* header, a replacement block with its names, literals and weights), the
\* construct ends, at the latest at the end of the input.
C20_EveryConstructEnds == [][ConstructEnds]_vars

\* ---- placeholders left in a Replacement
\* C23: no Replacement that spread() returns holds a placeholder, the
\* generic one or a numbered one; a recipe that mixes the two kinds is
\* rejected.
C23_NoPlaceholderLeft ==
    fpc = "done" =>
        /\ MixedRecipe(frecipe) => fresult.kind # "list"
        /\ fresult.kind = "list" =>
              \A i \in 1..Len(fresult.val) :
                  \A j \in 1..Len(fresult.val[i]) : ~IsVar(fresult.val[i][j])

\* ----------------------------------------------------------- C9 and C10
InputWeights == [i \in 1..Len(winput.ids) |-> winput.heap[winput.ids[i]].w]
InputTotal == RSum(InputWeights)
NoObjectTwice(ids) == \A i, j \in 1..Len(ids) : i # j => ids[i] # ids[j]
InputPos(id) == CHOOSE i \in 1..Len(winput.ids) :
                   /\ winput.ids[i] = id
                   /\ \A j \in 1..Len(winput.ids) : winput.ids[j] = id => i <= j

\* the stored list is the input list reordered by descending weight, equal
\* weights in input order
StoredDescendingStable ==
    /\ Len(wrule.reps) = Len(winput.ids)
    /\ {wrule.reps[i] : i \in 1..Len(wrule.reps)} = {winput.ids[i] : i \in 1..Len(winput.ids)}
    /\ \A i, j \in 1..Len(wrule.reps) :
          i < j => /\ ~RLess(StoredWeights[i], StoredWeights[j])
                   /\ (StoredWeights[i] = StoredWeights[j] /\ wrule.reps[i] # wrule.reps[j])
                         => InputPos(wrule.reps[i]) < InputPos(wrule.reps[j])

\* every stored weight is the object's input weight divided by the input total
StoredIsInputOverTotal ==
    \A i \in 1..Len(wrule.reps) :
        RMul(wheap[wrule.reps[i]].w, InputTotal) = winput.heap[wrule.reps[i]].w

Normalized ==
    /\ wrule.state = "built"
    /\ StoredDescendingStable
    /\ near_equals_1(RSum(StoredWeights))
    /\ StoredIsInputOverTotal
    /\ (InputWeights = <<Rat(2, 1), Rat(1, 1), Rat(1, 1)>> /\ NoObjectTwice(winput.ids))
          => StoredWeights = <<Rat(1, 2), Rat(1, 4), Rat(1, 4)>>

\* C9 as stated: WeightedRule construction from any list of WeightedReplacements
\* with non-negative weights stores the candidates in descending weight order
\* (ties in input order), with weights that sum to 1 within 1e-6, each its input
\* weight divided by the input total; [2,1,1] becomes [0.5,0.25,0.25].
C9_AsStated == wrule.state # "none" => Normalized

\* C9 amended: the same, for a list that names no object twice and whose weights
\* have a positive total (an all-zero list raises ZeroDivisionError, an empty
\* list keeps the sum 0, an object listed twice is divided twice).
C9_NormalizedWhenPositiveTotal ==
    (wrule.state # "none" /\ NoObjectTwice(winput.ids) /\ InputTotal.n > 0) => Normalized

\* input weights [1,2,1]: the heaviest candidate moves to the front, the two
\* equal ones keep their order
C9_Witness ==
    /\ wrule.state = "built"
    /\ winput.ids = <<1, 2, 3>>
    /\ InputWeights = <<Rat(1, 1), Rat(2, 1), Rat(1, 1)>>
    /\ wrule.reps = <<2, 1, 3>>
    /\ StoredWeights = <<Rat(1, 2), Rat(1, 4), Rat(1, 4)>>

\* indices at which the draw minus the running sum of weights is <= 0
Crossings(ws, u) == {i \in 1..Len(ws) : RLe0(RSub(u, RSum(SubSeq(ws, 1, i))))}

Descending(ws) == \A i, j \in 1..Len(ws) : i < j => ~RLess(ws[i], ws[j])
SumsToOne(ws) == near_equals_1(RSum(ws))
InOrder == wrule.state = "built" /\ SumsToOne(StoredWeights) /\ Descending(StoredWeights)
\* the rule constructed first stays normalized and sorted
StaysInOrder == InOrder => InOrder'
\* the list given to the second construction, with the weights it has then
GivenWeights == [i \in 1..Len(winput'.ids) |-> wheap[winput'.ids[i]].w]
SecondBuilt == wsecond.state = "none" /\ wsecond'.state # "none"
\* a second construction from a normalized list changes no weight
RebuildKeeps == (SecondBuilt /\ SumsToOne(GivenWeights)) => wheap' = wheap

\* C22: once a WeightedRule is constructed, its weights keep summing to 1 and
\* its candidates stay in descending weight order whatever is constructed
\* later from the same WeightedReplacement objects; a construction from an
\* already normalized list changes no weight.
C22_RuleStaysNormalized == [][StaysInOrder /\ RebuildKeeps]_vars

====
